---------------------------- MODULE Spec2Model ----------------------------
(***************************************************************************)
(* A model of asyncorm's three core parts:                                 *)
(*   - the paginated result Cursor      (asyncorm/database/db_manager.py)  *)
(*   - GeneralManager.construct_query   (asyncorm/database/db_manager.py)  *)
(*   - the Field type system            (asyncorm/models/fields.py)        *)
(* Each part has its own specification (SpecCursor, SpecCompiler,          *)
(* SpecField); the variables of the other parts stay at their idle value.  *)
(* Python strings are TLA+ strings, Python lists are sequences.            *)
(***************************************************************************)
EXTENDS Integers, Sequences, FiniteSets, TLC

VARIABLES
    \* ---- Cursor ----
    nrows,        \* number of rows of the result set the compiled query selects
    cursor,       \* self._cursor: FALSE is None, TRUE is a driver cursor
    results,      \* self._results: the buffered rows
    step,         \* self._step
    forward,      \* self._forward
    stop,         \* self._stop (NoStop is None)
    step0,        \* the step argument of __init__
    forward0,     \* the forward argument of __init__
    yielded,      \* the rows __anext__ has returned so far, in order
    signal,       \* how the last __anext__ call ended: "none", "row", "stop", "error"
    driver,       \* the driver calls of the last __anext__ call, in order
    calls,        \* number of __anext__ calls made
    \* ---- query compiler ----
    query_chain,  \* the chain (a list of dicts) handed to construct_query
    chain0,       \* the chain as it was before the last construct_query call
    query,        \* the text the last construct_query call returned
    compiles,     \* number of construct_query calls made on query_chain
    \* ---- fields ----
    field,        \* the field object (its attribute dict), or NoField
    outcome       \* what the last constructor or method call did

cursorVars == <<nrows, cursor, results, step, forward, stop, step0, forward0,
                yielded, signal, driver, calls>>
compilerVars == <<query_chain, chain0, query, compiles>>
fieldVars == <<field, outcome>>
vars == <<cursorVars, compilerVars, fieldVars>>

Min(a, b) == IF a <= b THEN a ELSE b
Max(a, b) == IF a >= b THEN a ELSE b

IsPrefix(s, t) == Len(s) <= Len(t) /\ SubSeq(t, 1, Len(s)) = s

(***************************************************************************)
(*                               Cursor                                    *)
(***************************************************************************)
MaxRows == 8        \* result sets of 0..MaxRows rows
MaxStep == 3        \* batch sizes 1..MaxStep
MaxForward == 2     \* starting offsets 0..MaxForward
MaxStop == 7        \* stop bounds 0..MaxStop, or none
MaxCalls == 11      \* __anext__ calls per cursor

NoStop == -1        \* stop=None

\* The rows are numbered by their position in the result set: row p is p.
\* The driver's cursor.forward(k) on a fresh cursor over n rows
DriverForward(n, k) == Min(n, k)

\* The driver's cursor.fetch(k) at position pos of a result set of n rows
DriverFetch(n, pos, k) ==
    [i \in 1..Max(0, Min(n, pos + k) - pos) |-> pos + i - 1]

Ev(op, at, n) == [op |-> op, at |-> at, n |-> n]

\* get_results with the shrink of the last page left out (a mutation)
GetResultsNoShrink(n, fw, st, sp) ==
    LET pos == IF fw # 0 THEN DriverForward(n, fw) ELSE 0
        open == <<Ev("transaction", fw, 0), Ev("cursor", fw, 0)>>
                  \o (IF fw # 0 THEN <<Ev("forward", fw, fw)>> ELSE <<>>)
        no_stop == sp # NoStop
        rows == DriverFetch(n, pos, st)
    IN  IF no_stop /\ fw >= sp
        THEN [raised |-> TRUE, results |-> <<>>, step |-> st,
              driver |-> open \o <<Ev("close", fw, 0)>>]
        ELSE [raised |-> rows = <<>>, results |-> rows, step |-> st,
              driver |-> open \o <<Ev("fetch", fw, st), Ev("close", fw, 0)>>]

\* get_results leaving its transaction open when it raises before the fetch
\* (a mutation)
GetResultsLeaksTransaction(n, fw, st, sp) ==
    LET pos == IF fw # 0 THEN DriverForward(n, fw) ELSE 0
        open == <<Ev("transaction", fw, 0), Ev("cursor", fw, 0)>>
                  \o (IF fw # 0 THEN <<Ev("forward", fw, fw)>> ELSE <<>>)
        no_stop == sp # NoStop
        st1 == IF no_stop /\ fw + st >= sp THEN sp - fw ELSE st
        rows == DriverFetch(n, pos, st1)
    IN  IF no_stop /\ fw >= sp
        THEN [raised |-> TRUE, results |-> <<>>, step |-> st, driver |-> open]
        ELSE [raised |-> rows = <<>>, results |-> rows, step |-> st1,
              driver |-> open \o <<Ev("fetch", fw, st1), Ev("close", fw, 0)>>]

\* Cursor.get_results on a result set of n rows, with self._forward = fw,
\* self._step = st, self._stop = sp.  raised: StopAsyncIteration was raised;
\* step: self._step afterwards; driver: the driver calls made, in order.
GetResults(n, fw, st, sp) ==
    LET pos == IF fw # 0 THEN DriverForward(n, fw) ELSE 0
        open == <<Ev("transaction", fw, 0), Ev("cursor", fw, 0)>>
                  \o (IF fw # 0 THEN <<Ev("forward", fw, fw)>> ELSE <<>>)
        no_stop == sp # NoStop
        st1 == IF no_stop /\ fw + st >= sp THEN sp - fw ELSE st
        rows == DriverFetch(n, pos, st1)
    IN  IF no_stop /\ fw >= sp
        THEN [raised |-> TRUE, results |-> <<>>, step |-> st,
              driver |-> open \o <<Ev("close", fw, 0)>>]
        ELSE [raised |-> rows = <<>>, results |-> rows, step |-> st1,
              driver |-> open \o <<Ev("fetch", fw, st1), Ev("close", fw, 0)>>]

\* the clamp of __anext__ sending an overshooting offset back to the start
\* (a mutation)
ClampWraps(fw, sp) == IF sp # NoStop /\ fw > sp THEN 0 ELSE fw

\* __anext__, lines 41-42: the advanced offset is clamped to the stop bound
Clamp(fw, sp) == IF sp # NoStop /\ fw > sp THEN sp ELSE fw

\* Cursor.__init__
InitCursor ==
    /\ nrows \in 0..MaxRows
    /\ step \in 1..MaxStep
    /\ forward \in 0..MaxForward
    /\ stop \in {NoStop} \cup 0..MaxStop
    /\ step0 = step
    /\ forward0 = forward
    /\ cursor = FALSE
    /\ results = <<>>
    /\ yielded = <<>>
    /\ signal = "none"
    /\ driver = <<>>
    /\ calls = 0

IdleCursor ==
    /\ nrows = 0 /\ step = 1 /\ forward = 0 /\ stop = NoStop
    /\ step0 = 1 /\ forward0 = 0 /\ cursor = FALSE /\ results = <<>>
    /\ yielded = <<>> /\ signal = "none" /\ driver = <<>> /\ calls = 0

\* Cursor.__anext__: one whole call
Anext ==
    /\ calls < MaxCalls
    /\ calls' = calls + 1
    /\ LET \* lines 36-37
           r1 == IF ~cursor
                 THEN GetResults(nrows, forward, step, stop)
                 ELSE [raised |-> FALSE, results |-> results, step |-> step,
                       driver |-> <<>>]
           \* lines 39-43
           again == ~r1.raised /\ r1.results = <<>>
           fw2 == IF again THEN Clamp(forward + r1.step, stop) ELSE forward
           r2 == IF again
                 THEN GetResults(nrows, fw2, r1.step, stop)
                 ELSE [raised |-> r1.raised, results |-> r1.results,
                       step |-> r1.step, driver |-> <<>>]
       IN  /\ cursor' = TRUE
           /\ step' = r2.step
           /\ forward' = fw2
           /\ driver' = r1.driver \o r2.driver
           /\ IF r2.raised
              THEN /\ signal' = "stop"
                   /\ results' = IF again THEN r1.results ELSE results
                   /\ yielded' = yielded
              ELSE IF r2.results = <<>>
              THEN \* line 45 on an empty list: IndexError
                   /\ signal' = "error"
                   /\ results' = r2.results
                   /\ yielded' = yielded
              ELSE \* line 45
                   /\ signal' = "row"
                   /\ results' = Tail(r2.results)
                   /\ yielded' = Append(yielded, Head(r2.results))
    /\ UNCHANGED <<nrows, stop, step0, forward0>>
    /\ UNCHANGED <<compilerVars, fieldVars>>

IdleCompiler ==
    /\ query_chain = <<>> /\ chain0 = <<>> /\ query = "" /\ compiles = 0

IdleField ==
    /\ field = [kind |-> "none"] /\ outcome = [op |-> "none"]

NextCursor == Anext

CursorInit == InitCursor /\ IdleCompiler /\ IdleField

SpecCursor == CursorInit /\ [][NextCursor]_vars

\* the rows a cursor constructed with forward0 and stop must yield:
\* positions forward0 .. min(nrows, stop)-1
Expected ==
    LET hi == IF stop = NoStop THEN nrows ELSE Min(nrows, stop)
    IN  [i \in 1..Max(0, hi - forward0) |-> forward0 + i - 1]

\* C1: over an unchanging result set of nrows rows the cursor yields exactly
\* the rows at positions forward0 .. min(nrows, stop)-1 (to nrows-1 with no
\* stop bound), once each and in order, and signals end-of-sequence on the
\* call after the last of them (on the first call when the range is empty);
\* no call ends in another error.
C1_YieldsExactRange ==
    /\ IsPrefix(yielded, Expected)
    /\ signal = "stop" => yielded = Expected
    /\ signal # "error"
    /\ calls >= 1 => signal \in {"row", "stop"}
    /\ (calls >= 1 /\ Expected = <<>>) => signal = "stop"

\* batch_size 3, stop_bound 7: seven rows, then end-of-sequence
C1_Witness ==
    /\ step0 = 3 /\ stop = 7 /\ forward0 = 0
    /\ signal = "stop" /\ Len(yielded) = 7 /\ calls = 8

\* an empty table: end-of-sequence on the first call
C1_WitnessEmpty == nrows = 0 /\ calls = 1 /\ signal = "stop"

\* C2: with a stop bound set, every driver fetch asks for n >= 1 rows with
\* offset + n <= stop, and a batch fetch at offset >= stop signals
\* end-of-sequence without any driver fetch.
C2_FetchWithinStop ==
    stop # NoStop =>
        /\ \A i \in 1..Len(driver) :
              driver[i].op = "fetch" =>
                  /\ driver[i].n >= 1
                  /\ driver[i].at + driver[i].n <= stop
        /\ (driver # <<>> /\ forward >= stop) =>
              /\ signal = "stop"
              /\ \A i \in 1..Len(driver) : driver[i].op # "fetch"

\* batch_size 3, stop_bound 7: the last page is fetched with 1 row at offset 6
C2_Witness ==
    /\ step0 = 3 /\ stop = 7 /\ forward0 = 0
    /\ \E i \in 1..Len(driver) :
          driver[i].op = "fetch" /\ driver[i].at = 6 /\ driver[i].n = 1

\* C3: once a call has signalled end-of-sequence, every later call signals
\* end-of-sequence again and no further row is returned.
C3_ExhaustedIsTerminal ==
    [][signal = "stop" => (signal' = "stop" /\ yielded' = yielded)]_vars

\* a second end-of-sequence after the first, with and without a stop bound
C3_Witness ==
    /\ signal = "stop" /\ calls >= Len(yielded) + 2 /\ Len(yielded) >= 1

\* C13: the Cursor's batch size (self._step) has the value it was constructed
\* with after every get_results call and every sequence of __anext__ calls:
\* the shrink of the last page applies to that one fetch only.
C13_BatchSizeKept == step = step0

\* how many of the first i driver calls are op
OpCount(log, i, op) == Cardinality({j \in 1..i : log[j].op = op})

\* the transactions open after the first i driver calls
OpenTransactions(log, i) == OpCount(log, i, "transaction") - OpCount(log, i, "close")

\* C15: every batch fetch runs inside its own newly opened transaction: the
\* transaction is opened with none open, the driver cursor is prepared,
\* advanced and fetched from with exactly one open, each transaction prepares
\* one cursor and serves at most one fetch, and none is open when __anext__
\* returns a row or signals end-of-sequence, nor between two calls.
C15_TransactionPerBatch ==
    /\ \A i \in 1..Len(driver) :
          LET open == OpenTransactions(driver, i - 1)
          IN  /\ driver[i].op = "transaction" => open = 0
              /\ driver[i].op \in {"cursor", "forward", "fetch", "close"} => open = 1
              /\ driver[i].op = "cursor" => driver[i - 1].op = "transaction"
              /\ driver[i].op = "forward" => driver[i - 1].op = "cursor"
              /\ driver[i].op = "fetch" => driver[i - 1].op \in {"cursor", "forward"}
    /\ OpenTransactions(driver, Len(driver)) = 0
    /\ OpCount(driver, Len(driver), "cursor") = OpCount(driver, Len(driver), "transaction")
    /\ calls >= 1 => signal \in {"row", "stop"}

\* after some rows, a batch whose fetch came back empty: end-of-sequence,
\* transaction closed
C15_Witness ==
    /\ signal = "stop" /\ Len(yielded) >= 1
    /\ \E i \in 1..Len(driver) : driver[i].op = "fetch"
    /\ driver[Len(driver)].op = "close"

\* a batch refused at the stop bound before any fetch: the transaction that
\* was opened for it is closed
C15_WitnessNoFetch ==
    /\ signal = "stop" /\ driver # <<>>
    /\ \A i \in 1..Len(driver) : driver[i].op # "fetch"

(***************************************************************************)
(*                     GeneralManager.construct_query                      *)
(***************************************************************************)
MaxWheres == 2      \* db__where operations after the first operation
MaxCompiles == 2    \* construct_query calls on one chain object

\* Python values that are not plain strings carry their type
PyList(s) == [t |-> "list", v |-> s]
PyStr(s)  == [t |-> "str", v |-> s]

\* dict.get(k, default) and dict.update({k: v})
Get(d, k, default) == IF k \in DOMAIN d THEN d[k] ELSE default
Update(d, k, v) == [x \in DOMAIN d \cup {k} |-> IF x = k THEN v ELSE d[x]]

StartsWith(s, p) == Len(s) >= Len(p) /\ SubSeq(s, 1, Len(p)) = p
EndsWith(s, p) == Len(s) >= Len(p) /\ SubSeq(s, Len(s) - Len(p) + 1, Len(s)) = p
Contains(s, p) == \E i \in 1..(Len(s) - Len(p) + 1) : SubSeq(s, i, i + Len(p) - 1) = p

\* sep.join(items)
RECURSIVE Join(_, _)
Join(sep, items) ==
    IF items = <<>> THEN ""
    ELSE IF Len(items) = 1 THEN items[1]
    ELSE items[1] \o sep \o Join(sep, Tail(items))

\* what "for f in ordering" iterates over: the items of a list, the
\* characters of a string
Items(ordering) ==
    IF ordering.t = "list" THEN ordering.v
    ELSE [i \in 1..Len(ordering.v) |-> SubSeq(ordering.v, i, i)]

\* GeneralManager.ordering_syntax
ordering_syntax(ordering) ==
    IF Len(ordering.v) = 0 THEN ""
    ELSE LET fs == Items(ordering)
             result == [i \in 1..Len(fs) |->
                          IF StartsWith(fs[i], "-")
                          THEN " " \o SubSeq(fs[i], 2, Len(fs[i])) \o " DESC "
                          ELSE fs[i]]
         IN  "ORDER BY " \o Join(",", result)

\* the keys each template substitutes
TemplateKeys(action) ==
    CASE action = "db__select_all" -> {"select", "table_name", "ordering"}
      [] action = "db__select" -> {"select", "table_name", "condition", "ordering"}
      [] action = "db__delete" -> {"table_name", "id_data"}

\* getattr(self, action).format(**res_dict) for the templates db__select_all,
\* db__select and db__delete; ordering is a string by then
Format(action, d) ==
    CASE action = "db__select_all" ->
            "SELECT " \o d.select \o " FROM " \o d.table_name \o " " \o d.ordering.v
      [] action = "db__select" ->
            "SELECT " \o d.select \o " FROM " \o d.table_name
                \o " WHERE ( " \o d.condition \o " ) " \o d.ordering.v
      [] action = "db__delete" ->
            "DELETE FROM " \o d.table_name \o " WHERE " \o d.id_data \o " "

\* query_clean that forgets the semicolon (a mutation)
query_clean_nothing(q) == q

\* GeneralManager.query_clean
query_clean(q) == q \o ";"

\* the merge of one db__where condition that always puts AND in front
\* (a mutation)
MergeConditionLeadingAnd(condition, c) == Join(" AND ", <<condition, c>>)

\* construct_query, lines 158-162: the merge of one db__where condition
MergeCondition(condition, c) ==
    IF condition # "" THEN Join(" AND ", <<condition, c>>) ELSE c

\* construct_query, lines 153-164: the loop over the chain from element i on;
\* st is [res_dict, query_type]
RECURSIVE WhereLoop(_, _, _)
WhereLoop(chain, i, st) ==
    IF i > Len(chain) THEN st
    ELSE LET q == IF i = 1 THEN st.res_dict ELSE chain[i]
         IN  IF q.action = "db__where"
             THEN LET reclass == st.query_type = "db__select_all"
                      qt == IF reclass THEN "db__select" ELSE st.query_type
                      r1 == IF reclass THEN Update(st.res_dict, "action", qt)
                            ELSE st.res_dict
                      condition == MergeCondition(Get(r1, "condition", ""), q.condition)
                  IN  WhereLoop(chain, i + 1,
                                [res_dict |-> Update(r1, "condition", condition),
                                 query_type |-> qt])
             ELSE WhereLoop(chain, i + 1, st)

\* construct_query that sets the ordering whatever the select clause is
\* (a mutation)
OrderingClauseAlways(res_dict) ==
    ordering_syntax(Get(res_dict, "ordering", PyList(<<>>)))

\* construct_query, lines 167-172: the ordering clause
OrderingClause(res_dict) ==
    IF Get(res_dict, "select", "") = "*"
    THEN ordering_syntax(Get(res_dict, "ordering", PyList(<<>>)))
    ELSE ""

\* GeneralManager.construct_query(query_chain).  res_dict is the first dict
\* of the chain itself (query_chain[:] copies the list, not its dicts), so the
\* chain afterwards has res_dict as its first element.
construct_query(chain) ==
    LET st == WhereLoop(chain, 1, [res_dict |-> chain[1],
                                    query_type |-> chain[1].action])
        res_dict == Update(st.res_dict, "ordering", PyStr(OrderingClause(st.res_dict)))
        after == [i \in 1..Len(chain) |-> IF i = 1 THEN res_dict ELSE chain[i]]
    IN  IF TemplateKeys(res_dict.action) \subseteq DOMAIN res_dict
        THEN [raised |-> "", chain |-> after,
              query |-> query_clean(Format(res_dict.action, res_dict))]
        ELSE [raised |-> "KeyError", chain |-> after, query |-> ""]

Conditions == {"price > 100", "quantity > 0", "id = 1"}

Where(c) == [action |-> "db__where", condition |-> c]

Orderings == {<<>>, <<"-id">>, <<"name">>, <<"-id", "name">>, <<"name", "-id">>}

SelectAll(sel, ordering) ==
    [action |-> "db__select_all", select |-> sel, table_name |-> "book",
     ordering |-> PyList(ordering)]

\* the first operations a chain starts with
FirstOps ==
    {SelectAll(sel, o) : sel \in {"*", "COUNT(*)"}, o \in Orderings}
    \cup {[action |-> "db__select_all", select |-> sel, table_name |-> "book"] :
             sel \in {"*", "COUNT(*)"}}
    \cup {[action |-> "db__select", select |-> sel, table_name |-> "book",
           condition |-> "id = 1", ordering |-> PyList(o)] :
             sel \in {"*", "COUNT(*)"}, o \in {<<>>, <<"-id">>}}
    \cup {[action |-> "db__select", select |-> "*", table_name |-> "book"]}
    \cup {[action |-> "db__delete", table_name |-> "book", id_data |-> "id = 1"]}

WhereSeqs == UNION {[1..k -> Conditions] : k \in 0..MaxWheres}

\* a chain as the model layer builds it: a first operation, then db__where's
InitCompiler ==
    /\ \E first \in FirstOps, ws \in WhereSeqs :
          query_chain = <<first>> \o [i \in 1..Len(ws) |-> Where(ws[i])]
    /\ chain0 = query_chain
    /\ query = ""
    /\ compiles = 0

\* one call construct_query(query_chain)
ConstructQuery ==
    /\ compiles < MaxCompiles
    /\ LET r == construct_query(query_chain)
       IN  /\ query' = (IF r.raised = "" THEN r.query ELSE r.raised)
           /\ query_chain' = r.chain
    /\ chain0' = query_chain
    /\ compiles' = compiles + 1
    /\ UNCHANGED <<cursorVars, fieldVars>>

NextCompiler == ConstructQuery

CompilerInit == IdleCursor /\ InitCompiler /\ IdleField

SpecCompiler == CompilerInit /\ [][NextCompiler]_vars

\* the condition fragments of the db__where operations of a chain, in order
Fragments(chain) == [i \in 1..(Len(chain) - 1) |-> chain[i + 1].condition]

\* c1 AND c2 AND ... AND ck, written out from the left
RECURSIVE AndChain(_)
AndChain(cs) ==
    IF Len(cs) = 1 THEN cs[1]
    ELSE AndChain(SubSeq(cs, 1, Len(cs) - 1)) \o " AND " \o cs[Len(cs)]

\* the chain the last call compiled started with SelectAll and had k >= 1 Where
SelectAllWithWheres ==
    /\ compiles >= 1
    /\ chain0[1].action = "db__select_all"
    /\ Len(chain0) >= 2

\* C4: for a chain SelectAll, Where c1, ..., Where ck (k >= 1) the action is
\* reclassified to Select, the select-with-condition template is used, and
\* the accumulated condition is c1 AND ... AND ck in chain order, with no
\* leading AND.
C4_WheresAndMerged ==
    SelectAllWithWheres =>
        /\ query_chain[1].action = "db__select"
        /\ query_chain[1].condition = AndChain(Fragments(chain0))
        /\ ~StartsWith(query_chain[1].condition, " AND ")
        /\ StartsWith(query, "SELECT " \o chain0[1].select \o " FROM book WHERE ( "
                                \o AndChain(Fragments(chain0)) \o " ) ")

C4_Witness ==
    /\ SelectAllWithWheres
    /\ Len(chain0) = 3
    /\ query_chain[1].condition = "price > 100 AND id = 1"

BookChain(first) == <<first, Where("price > 100"), Where("quantity > 0")>>

\* the last call compiled the fresh chain [SelectAll(book, *),
\* Where(price > 100), Where(quantity > 0)], no ordering supplied
CompiledBookChain ==
    /\ compiles = 1
    /\ chain0 \in {BookChain(SelectAll("*", <<>>)),
                   BookChain([action |-> "db__select_all", select |-> "*",
                              table_name |-> "book"])}

\* C5 as stated: the chain compiles to exactly
\* SELECT * FROM book WHERE ( price > 100 AND quantity > 0 )  ;
\* with two spaces before the semicolon
C5_BookExampleTwoSpaces ==
    CompiledBookChain =>
        query = "SELECT * FROM book WHERE ( price > 100 AND quantity > 0 )  ;"

\* C5, amended: the chain compiles to exactly
\* SELECT * FROM book WHERE ( price > 100 AND quantity > 0 ) ;
\* with one space between the closing parenthesis and the semicolon
C5_BookExampleOneSpace ==
    CompiledBookChain =>
        query = "SELECT * FROM book WHERE ( price > 100 AND quantity > 0 ) ;"

C5_Witness ==
    /\ CompiledBookChain
    /\ "ordering" \notin DOMAIN chain0[1]
    /\ EndsWith(query, "quantity > 0 ) ;")

\* the last call compiled a select chain whose ordering was a list (or absent)
CompiledListOrdering ==
    /\ compiles >= 1
    /\ chain0[1].action \in {"db__select_all", "db__select"}
    /\ query # "KeyError"
    /\ Get(chain0[1], "ordering", PyList(<<>>)).t = "list"

\* C6: the statement carries an ORDER BY clause only when the select clause is
\* exactly "*" and the ordering list is non-empty; ["-id"] with "*" gives the
\* clause "ORDER BY  id DESC ", entries are comma-joined in list order, and
\* for any other select clause the substituted ordering is empty.
C6_OrderingOnlyForStar ==
    CompiledListOrdering =>
        LET ordering == Get(chain0[1], "ordering", PyList(<<>>)).v
            star == chain0[1].select = "*"
        IN  /\ Contains(query, "ORDER BY") <=> (star /\ ordering # <<>>)
            /\ ~star => query_chain[1].ordering = PyStr("")
            /\ (star /\ ordering = <<"-id">>) =>
                  /\ query_chain[1].ordering = PyStr("ORDER BY  id DESC ")
                  /\ EndsWith(query, " ORDER BY  id DESC ;")
            /\ (star /\ ordering = <<"-id", "name">>) =>
                  EndsWith(query, " ORDER BY  id DESC ,name;")
            /\ (star /\ ordering = <<"name", "-id">>) =>
                  EndsWith(query, " ORDER BY name, id DESC ;")

C6_Witness ==
    /\ CompiledListOrdering
    /\ chain0[1].select = "*"
    /\ Get(chain0[1], "ordering", PyList(<<>>)).v = <<"-id">>
    /\ query = "SELECT * FROM book WHERE ( price > 100 ) ORDER BY  id DESC ;"

\* an ordering was supplied with COUNT(*) and left out of the statement
C6_WitnessCount ==
    /\ CompiledListOrdering
    /\ chain0[1].select = "COUNT(*)"
    /\ Get(chain0[1], "ordering", PyList(<<>>)).v = <<"-id">>
    /\ query = "SELECT COUNT(*) FROM book ;"


\* what construct_query returns or raises on the chain as it is now
CompiledAgain ==
    LET r == construct_query(query_chain)
    IN  IF r.raised = "" THEN r.query ELSE r.raised

\* C14: construct_query does not modify the chain it is given: after a call
\* every operation record has the action, condition and ordering it had
\* before, and compiling the same chain object again returns the same text.
C14_CompileLeavesChain ==
    compiles >= 1 =>
        /\ query_chain = chain0
        /\ CompiledAgain = query

(***************************************************************************)
(*                          The Field type system                          *)
(***************************************************************************)
MaxListLen == 2     \* the lists handed to validate have 0..MaxListLen items

\* Python values carry their runtime type: [t |-> type name, v |-> payload]
PyNone == [t |-> "NoneType", v |-> 0]
PyBool(b) == [t |-> "bool", v |-> b]
PyInt(n) == [t |-> "int", v |-> n]
PyDict(keys) == [t |-> "dict", v |-> keys]     \* a dict, by its keys in order
PyObj(type, v) == [t |-> type, v |-> v]        \* an object of another class

\* the classes a value of runtime type t is an instance of
\* (bool subclasses int, datetime subclasses date)
Mro(t) ==
    CASE t = "bool" -> {"bool", "int"}
      [] t = "datetime" -> {"datetime", "date"}
      [] OTHER -> {t}

\* isinstance(x, types); "object" is every value's class
IsInstance(x, types) == "object" \in types \/ Mro(x.t) \cap types # {}

\* bool(x)
Truthy(x) ==
    CASE x.t = "NoneType" -> FALSE
      [] x.t = "bool" -> x.v
      [] x.t = "int" -> x.v # 0
      [] x.t \in {"str", "list", "dict"} -> Len(x.v) > 0
      [] OTHER -> TRUE

\* a == b for the values of the model: bool and int compare by number
Num(x) == IF x.t = "bool" THEN (IF x.v THEN 1 ELSE 0) ELSE x.v
PyEq(a, b) ==
    IF a.t \in {"bool", "int"} /\ b.t \in {"bool", "int"} THEN Num(a) = Num(b)
    ELSE a.t = b.t /\ a.v = b.v

Kinds == {"BooleanField", "CharField", "EmailField", "TextField", "IntegerField",
          "BigIntegerField", "FloatField", "DecimalField", "AutoField",
          "BigAutoField", "DateTimeField", "DateField", "TimeField", "ForeignKey",
          "ManyToManyField", "JsonField", "Uuid4Field", "ArrayField",
          "GenericIPAddressField", "MACAdressField"}

\* KWARGS_TYPES
KWARGS_TYPES(k) ==
    CASE k \in {"auto_now", "db_index", "null", "unique"} -> {"bool"}
      [] k = "choices" -> {"dict", "tuple"}
      [] k \in {"decimal_places", "max_digits", "max_length"} -> {"int"}
      [] k = "default" -> {"object"}
      [] OTHER -> {"str"}

\* the class attribute internal_type
internal_type(kind) ==
    CASE kind = "BooleanField" -> {"bool"}
      [] kind \in {"CharField", "EmailField", "TextField"} -> {"str"}
      [] kind \in {"IntegerField", "BigIntegerField", "AutoField", "BigAutoField",
                   "ForeignKey"} -> {"int"}
      [] kind = "FloatField" -> {"float"}
      [] kind = "DecimalField" -> {"Decimal", "float", "int"}
      [] kind = "DateTimeField" -> {"datetime"}
      [] kind = "DateField" -> {"date"}
      [] kind = "TimeField" -> {"time"}
      [] kind = "ManyToManyField" -> {"list", "int"}
      [] kind = "JsonField" -> {"dict", "list", "str"}
      [] kind = "Uuid4Field" -> {"UUID"}
      [] kind = "ArrayField" -> {"list"}
      [] kind = "GenericIPAddressField" -> {"IPNetwork"}
      [] kind = "MACAdressField" -> {"EUI"}

\* required_kwargs with no class requiring anything (a mutation)
required_kwargs_none(kind) == {}

\* the class attribute required_kwargs
required_kwargs(kind) ==
    CASE kind \in {"CharField", "EmailField", "JsonField"} -> {"max_length"}
      [] kind \in {"ForeignKey", "ManyToManyField"} -> {"foreign_key"}
      [] OTHER -> {}

\* the class attribute strftime
strftime(kind) ==
    CASE kind = "DateField" -> "%Y-%m-%d"
      [] kind = "TimeField" -> "%H:%s"
      [] OTHER -> "%Y-%m-%d  %H:%s"

Common == [db_column |-> PyStr(""), db_index |-> PyBool(FALSE), default |-> PyNone,
           null |-> PyBool(FALSE), unique |-> PyBool(FALSE)]

\* the parameters of each class's __init__ with their default values
Defaults(kind) ==
    CASE kind = "BooleanField" -> Common
      [] kind \in {"TextField", "IntegerField", "BigIntegerField", "FloatField"} ->
            Update(Common, "choices", PyNone)
      [] kind \in {"CharField", "EmailField", "JsonField"} ->
            Update(Update(Common, "choices", PyNone), "max_length", PyInt(0))
      [] kind = "DecimalField" ->
            Update(Update(Update(Common, "choices", PyNone),
                          "decimal_places", PyInt(2)), "max_digits", PyInt(10))
      [] kind \in {"AutoField", "BigAutoField"} -> [db_column |-> PyStr("id")]
      [] kind \in {"DateTimeField", "DateField", "TimeField"} ->
            Update(Update(Update(Common, "choices", PyNone),
                          "auto_now", PyBool(FALSE)), "strftime", PyNone)
      [] kind = "ForeignKey" -> Update(Common, "foreign_key", PyStr(""))
      [] kind = "ManyToManyField" ->
            [db_column |-> PyStr(""), db_index |-> PyBool(FALSE), default |-> PyNone,
             foreign_key |-> PyNone, unique |-> PyBool(FALSE)]
      [] kind = "Uuid4Field" ->
            [db_column |-> PyStr(""), db_index |-> PyBool(FALSE), null |-> PyBool(FALSE),
             unique |-> PyBool(TRUE), uuid_type |-> PyStr("v4")]
      [] kind = "ArrayField" ->
            Update(Update(Common, "null", PyBool(TRUE)), "value_type", PyStr("text"))
      [] kind = "GenericIPAddressField" ->
            [db_column |-> PyStr(""), db_index |-> PyBool(FALSE), null |-> PyBool(FALSE),
             protocol |-> PyStr("both"), unique |-> PyBool(FALSE),
             unpack_protocol |-> PyStr("same")]
      [] kind = "MACAdressField" ->
            Update(Update(Common, "dialect", PyStr("unix")), "unique", PyBool(TRUE))

\* args laid over d: the arguments a call binds
Bind(d, args) == [k \in DOMAIN d |-> IF k \in DOMAIN args THEN args[k] ELSE d[k]]

\* the keyword arguments each class's __init__ hands to Field.__init__
SuperKwargs(kind, a) ==
    CASE kind \in {"AutoField", "BigAutoField"} ->
            [choices |-> PyNone, db_column |-> a.db_column, db_index |-> PyBool(FALSE),
             default |-> PyNone, null |-> PyBool(FALSE), unique |-> PyBool(TRUE)]
      [] kind \in {"DateTimeField", "DateField", "TimeField"} ->
            Update(a, "strftime",
                   IF Truthy(a.strftime) THEN a.strftime ELSE PyStr(strftime(kind)))
      [] kind \in {"Uuid4Field", "GenericIPAddressField"} -> Update(a, "default", PyNone)
      [] kind = "ArrayField" -> [k \in DOMAIN a \ {"value_type"} |-> a[k]]
      [] OTHER -> a

\* the checks a subclass __init__ makes before Field.__init__:
\* Uuid4Field, GenericIPAddressField, MACAdressField
PreCheck(kind, a) ==
    CASE kind = "Uuid4Field" ->
            IF a.uuid_type.v \notin {"v1", "v4"} THEN "FieldError" ELSE "ok"
      [] kind = "GenericIPAddressField" ->
            IF a.protocol.v \notin {"both", "ipv6", "ipv4"} THEN "FieldError"
            ELSE IF a.unpack_protocol.v \notin {"same", "ipv6", "ipv4"} THEN "FieldError"
            ELSE IF a.protocol.v # "both" /\ a.unpack_protocol.v # "same" THEN "FieldError"
            ELSE "ok"
      [] kind = "MACAdressField" ->
            IF a.dialect.v \notin {"bare", "cisco", "eui48", "pgsql", "unix",
                                   "unix_expanded"}
            THEN "FieldError" ELSE "ok"
      [] OTHER -> "ok"

\* set_field_name without the check of the last character (a mutation)
set_field_name_no_end(db_column) ==
    IF Contains(db_column, "__") THEN "FieldError"
    ELSE IF StartsWith(db_column, "_") THEN "FieldError"
    ELSE "ok"

\* Field.set_field_name: the checks on the column name
set_field_name(db_column) ==
    IF Contains(db_column, "__") THEN "FieldError"
    ELSE IF StartsWith(db_column, "_") THEN "FieldError"
    ELSE IF EndsWith(db_column, "_") THEN "FieldError"
    ELSE "ok"

\* Field.validate_kwargs
validate_kwargs(kind, kwargs) ==
    IF \E kw \in required_kwargs(kind) : ~Truthy(Get(kwargs, kw, PyNone))
    THEN "FieldError"
    ELSE IF \E k \in DOMAIN kwargs :
               /\ ~IsInstance(kwargs[k], KWARGS_TYPES(k))
               /\ ~(kwargs[k] = PyNone /\ k = "choices")
    THEN "FieldError"
    ELSE IF Truthy(Get(kwargs, "db_column", PyStr("")))
    THEN set_field_name(kwargs.db_column.v)
    ELSE "ok"

NoField == [kind |-> "none"]

\* kind(**args): [result, field]; the field is the object's attribute dict
New(kind, args) ==
    LET a == Bind(Defaults(kind), args)
        kwargs == SuperKwargs(kind, a)
        pre == PreCheck(kind, a)
        chk == validate_kwargs(kind, kwargs)
        attrs == IF kind = "ArrayField" THEN Update(kwargs, "value_type", a.value_type)
                 ELSE kwargs
    IN  IF pre # "ok" THEN [result |-> pre, field |-> NoField]
        ELSE IF chk # "ok" THEN [result |-> chk, field |-> NoField]
        ELSE [result |-> "ok",
              field |-> [kind |-> kind, attrs |-> Update(attrs, "field_type", PyStr(kind))]]


\* the first element of rs that is not "ok", or "ok"
RECURSIVE FirstFailure(_)
FirstFailure(rs) ==
    IF rs = <<>> THEN "ok"
    ELSE IF rs[1] # "ok" THEN rs[1]
    ELSE FirstFailure(Tail(rs))

\* "value not in self.choices.keys()": a list or a dict cannot be hashed
NotInChoices(choices, value) ==
    IF value.t \in {"list", "dict"} THEN "TypeError"
    ELSE IF \E i \in 1..Len(choices.v) : PyEq(choices.v[i], value) THEN "ok"
    ELSE "FieldError"

\* Field.validate: "ok", or the exception raised
FieldValidate(f, value) ==
    IF value = PyNone /\ "null" \notin DOMAIN f.attrs THEN "AttributeError"
    ELSE IF value = PyNone /\ ~Truthy(f.attrs.null) THEN "FieldError"
    ELSE IF "choices" \in DOMAIN f.attrs /\ f.attrs.choices # PyNone
            /\ NotInChoices(f.attrs.choices, value) # "ok"
    THEN NotInChoices(f.attrs.choices, value)
    ELSE IF value # PyNone /\ ~IsInstance(value, internal_type(f.kind))
    THEN "FieldError"
    ELSE "ok"

Char(s, i) == SubSeq(s, i, i)
AllIn(s, class) == \A i \in 1..Len(s) : Char(s, i) \in class

Digits == {"0", "1", "2", "3", "4", "5", "6", "7", "8", "9"}
Lower == {"a", "b", "c", "d", "e", "f", "g", "h", "i", "j", "k", "l", "m", "n",
          "o", "p", "q", "r", "s", "t", "u", "v", "w", "x", "y", "z"}
Upper == {"A", "B", "C", "D", "E", "F", "G", "H", "I", "J", "K", "L", "M", "N",
          "O", "P", "Q", "R", "S", "T", "U", "V", "W", "X", "Y", "Z"}
\* the regular expression class \w, over ASCII
Word == Digits \cup Lower \cup Upper \cup {"_"}

\* re.match(r'^[\w][\w0-9_.+-]+@[\w0-9-]+\.[\w0-9-.]+$', s)
EmailMatch(s) ==
    \E at \in 3..Len(s), dot \in 3..Len(s) :
        /\ at + 1 < dot /\ dot < Len(s)
        /\ Char(s, 1) \in Word
        /\ AllIn(SubSeq(s, 2, at - 1), Word \cup {".", "+", "-"})
        /\ Char(s, at) = "@"
        /\ AllIn(SubSeq(s, at + 1, dot - 1), Word \cup {"-"})
        /\ Char(s, dot) = "."
        /\ AllIn(SubSeq(s, dot + 1, Len(s)), Word \cup {"-", "."})

\* re.match(r'^[a-zA-Z0-9\-\b]{36}$', s)
UuidMatch(s) == Len(s) = 36 /\ AllIn(s, Digits \cup Lower \cup Upper \cup {"-"})

\* EmailField.validate
EmailValidate(f, value) ==
    IF FieldValidate(f, value) # "ok" THEN {FieldValidate(f, value)}
    ELSE IF value.t # "str" THEN {"TypeError"}      \* re.match(regex, None)
    ELSE IF EmailMatch(value.v) THEN {"ok"}
    ELSE {"FieldError"}

\* ManyToManyField.validate
M2MValidate(f, value) ==
    IF value.t = "list"
    THEN {FirstFailure([i \in 1..Len(value.v) |-> FieldValidate(f, value.v[i])])}
    ELSE {FieldValidate(f, value)}

\* ArrayField.homogeneous_type: the type of the first item, or FALSE ("")
homogeneous_type(items) ==
    LET first_type == items[1].t
    IN  IF \A i \in 2..Len(items) : first_type \in Mro(items[i].t)
        THEN first_type ELSE ""

\* ArrayField.validate
ArrayValidate(f, value) ==
    IF FieldValidate(f, value) # "ok" THEN {FieldValidate(f, value)}
    ELSE IF ~Truthy(value) THEN {"ok"}
    ELSE LET items_type == homogeneous_type(value.v)
         IN  IF items_type = "" THEN {"FieldError"}
             ELSE IF items_type = "list"
                     /\ ~(\A i \in 1..Len(value.v) :
                             Len(value.v[i].v) = Len(value.v[1].v))
             THEN {"FieldError"}
             ELSE {"ok"}

\* netaddr's IPNetwork(value): the IP version of the parsed network, or the
\* exception raised.  The strings of the model are parsed as netaddr parses
\* them; for a value that is neither a string nor a network netaddr raises
\* AddrFormatError or TypeError, depending on its version.
IPNetwork(value) ==
    CASE value.t = "IPNetwork" -> {value.v}
      [] value.t = "str" /\ value.v = "10.0.0.1" -> {"4"}
      [] value.t = "str" /\ value.v = "::1" -> {"6"}
      [] value.t = "str" /\ value.v \notin {"10.0.0.1", "::1"} -> {"AddrFormatError"}
      [] OTHER -> {"AddrFormatError", "TypeError"}

\* GenericIPAddressField.validate
IPValidate(f, value) ==
    {IF net = "AddrFormatError" THEN "FieldError"
     ELSE IF net = "TypeError" THEN "TypeError"
     ELSE IF f.attrs.protocol.v # "both"
             /\ net # SubSeq(f.attrs.protocol.v, Len(f.attrs.protocol.v),
                             Len(f.attrs.protocol.v))
     THEN "FieldError"
     ELSE "ok" : net \in IPNetwork(value)}

\* netaddr's EUI(value): "ok" or the exception raised, as for IPNetwork
EUI(value) ==
    CASE value.t = "EUI" -> {"ok"}
      [] value.t = "str" /\ value.v = "00:1b:77:49:54:fd" -> {"ok"}
      [] value.t = "str" /\ value.v # "00:1b:77:49:54:fd" -> {"AddrFormatError"}
      [] OTHER -> {"AddrFormatError", "TypeError"}

\* MACAdressField.validate
MACValidate(f, value) ==
    {IF eui = "AddrFormatError" THEN "FieldError" ELSE eui : eui \in EUI(value)}

\* f.validate(value): the set of ways the call can end, "ok" or an exception
validate(f, value) ==
    CASE f.kind = "EmailField" -> EmailValidate(f, value)
      [] f.kind = "ManyToManyField" -> M2MValidate(f, value)
      [] f.kind = "ArrayField" -> ArrayValidate(f, value)
      [] f.kind = "GenericIPAddressField" -> IPValidate(f, value)
      [] f.kind = "MACAdressField" -> MACValidate(f, value)
      [] OTHER -> {FieldValidate(f, value)}

Ok(value) == [result |-> "ok", value |-> value]
Raise(exc) == [result |-> exc, value |-> PyNone]

\* Field.sanitize_data
FieldSanitize(f, value) ==
    {IF r = "ok" THEN Ok(value) ELSE Raise(r) : r \in validate(f, value)}

\* BooleanField.sanitize_data
BooleanSanitize(f, value) ==
    IF value.t = "bool" \/ value = PyNone THEN {Ok(value)} ELSE {Raise("FieldError")}

\* CharField.sanitize_data
CharSanitize(f, value) ==
    {IF r.result # "ok" THEN r
     ELSE IF r.value.t # "str" THEN Raise("TypeError")        \* len(None)
     ELSE IF Len(r.value.v) > Num(f.attrs.max_length) THEN Raise("FieldError")
     ELSE Ok(r.value) : r \in FieldSanitize(f, value)}

\* json.loads on the strings of the model: the strings that are JSON texts
JsonTexts == {"1", "{}"}

\* json.dumps on the values of the model
RECURSIVE JsonDumps(_)
JsonDumps(x) ==
    CASE x.t = "str" -> "\"" \o x.v \o "\""
      [] x.t = "int" -> <<"0", "1", "2", "3", "4", "5", "6", "7", "8", "9">>[x.v + 1]
      [] x.t = "bool" -> IF x.v THEN "true" ELSE "false"
      [] x.t = "NoneType" -> "null"
      [] x.t = "dict" -> "{}"
      [] x.t = "list" -> "[" \o Join(", ", [i \in 1..Len(x.v) |-> JsonDumps(x.v[i])]) \o "]"

\* JsonField.sanitize_data
JsonSanitize(f, value) ==
    {IF r # "ok" THEN Raise(r)
     ELSE IF value = PyNone THEN Raise("TypeError")           \* len(None)
     ELSE IF value.t = "str" /\ value.v \notin JsonTexts THEN Raise("FieldError")
     ELSE LET text == IF value.t = "str" THEN value.v ELSE JsonDumps(value)
          IN  IF Len(text) > Num(f.attrs.max_length) THEN Raise("FieldError")
              ELSE Ok(PyStr(text)) : r \in validate(f, value)}

\* Uuid4Field.sanitize_data
Uuid4Sanitize(f, value) ==
    IF value.t # "str" THEN {Raise("TypeError")}     \* re.match(exp, value)
    ELSE IF UuidMatch(value.v) THEN {Ok(value)}
    ELSE {Raise("FieldError")}

\* f.sanitize_data(value): the set of ways the call can end
sanitize_data(f, value) ==
    CASE f.kind = "BooleanField" -> BooleanSanitize(f, value)
      [] f.kind \in {"CharField", "EmailField"} -> CharSanitize(f, value)
      [] f.kind = "JsonField" -> JsonSanitize(f, value)
      [] f.kind = "Uuid4Field" -> Uuid4Sanitize(f, value)
      [] f.kind \in {"GenericIPAddressField", "MACAdressField"} -> {Ok(value)}
      [] OTHER -> FieldSanitize(f, value)


\* str(n) for n >= 0
RECURSIVE IntStr(_)
IntStr(n) ==
    LET digit == <<"0", "1", "2", "3", "4", "5", "6", "7", "8", "9">>[(n % 10) + 1]
    IN  IF n < 10 THEN digit ELSE IntStr(n \div 10) \o digit

\* '{}'.format(x) for the values of the model
ToStr(x) ==
    CASE x.t = "str" -> x.v
      [] x.t = "int" -> IntStr(x.v)
      [] x.t = "bool" -> IF x.v THEN "True" ELSE "False"
      [] x.t = "NoneType" -> "None"
      [] x.t \in {"float", "Decimal"} -> x.v
      [] OTHER -> "<" \o x.t \o ">"

\* DATE_FIELDS
DATE_FIELDS == {"DateField", "DateTimeField"}

\* the class attribute creation_string, with the field's attributes filled in
creation_string(f) ==
    CASE f.kind = "BooleanField" -> "boolean"
      [] f.kind \in {"CharField", "EmailField"} ->
            "varchar(" \o ToStr(f.attrs.max_length) \o ")"
      [] f.kind = "TextField" -> "text"
      [] f.kind = "IntegerField" -> "integer"
      [] f.kind = "BigIntegerField" -> "bigint"
      [] f.kind = "FloatField" -> "double precision"
      [] f.kind = "DecimalField" ->
            "decimal(" \o ToStr(f.attrs.max_digits) \o "," \o ToStr(f.attrs.decimal_places)
                \o ")"
      [] f.kind \in {"AutoField", "BigAutoField"} -> "serial PRIMARY KEY"
      [] f.kind = "DateTimeField" -> "timestamp"
      [] f.kind = "DateField" -> "date"
      [] f.kind = "TimeField" -> "time"
      [] f.kind = "ForeignKey" -> "integer references " \o ToStr(f.attrs.foreign_key)
      [] f.kind = "JsonField" -> "JSON"
      [] f.kind = "Uuid4Field" ->
            "UUID DEFAULT " \o (IF f.attrs.uuid_type.v = "v1" THEN "uuid_generate_v1mc"
                                ELSE "uuid_generate_v4") \o "()"
      [] f.kind = "ArrayField" -> ToStr(f.attrs.value_type) \o " ARRAY"
      [] f.kind = "GenericIPAddressField" -> "INET"
      [] f.kind = "MACAdressField" -> "MACADDR"

\* creation_query, lines 67-81: the DEFAULT clause, or the exception that
\* sanitize_data raises on the default
DefaultClause(f) ==
    IF "default" \in DOMAIN f.attrs /\ f.attrs.default # PyNone
    THEN LET default_value == IF f.attrs.default.t = "function"
                              THEN f.attrs.default.v ELSE f.attrs.default
         IN  IF default_value.t = "str"
             THEN {Ok(" DEFAULT '" \o default_value.v \o "'")}
             ELSE IF default_value.t = "bool"
             THEN {Ok(" DEFAULT " \o ToStr(default_value))}
             ELSE {IF r.result = "ok" THEN Ok(" DEFAULT " \o ToStr(r.value)) ELSE r :
                      r \in sanitize_data(f, default_value)}
    ELSE IF f.kind \in DATE_FIELDS /\ Truthy(f.attrs.auto_now)
    THEN {Ok(" DEFAULT now()")}
    ELSE {Ok("")}

\* f.creation_query(): the set of ways the call can end.  ManyToManyField
\* overrides it with a template whose own_model the field does not hold.
creation_query(f) ==
    IF f.kind = "ManyToManyField" THEN {Raise("KeyError")}
    ELSE {IF d.result # "ok" THEN d
          ELSE Ok(PyStr(ToStr(f.attrs.db_column) \o " " \o creation_string(f) \o d.value
                        \o (IF Truthy(f.attrs.unique) THEN " UNIQUE" ELSE "")
                        \o (IF Truthy(f.attrs.null) THEN " NULL" ELSE " NOT NULL"))) :
             d \in DefaultClause(f)}

\* the values a keyword argument is given when it is not left out
Options(k) ==
    CASE k = "null" -> {PyBool(TRUE), PyBool(FALSE)}
      [] k = "choices" -> {PyDict(<<PyStr("a"), PyInt(1)>>)}
      [] k = "max_length" -> {PyInt(0), PyInt(5), PyStr("5")}
      [] k = "max_digits" -> {PyInt(5)}
      [] k = "decimal_places" -> {PyInt(0), PyInt(3)}
      [] k = "foreign_key" -> {PyStr("author"), PyStr("")}
      [] k = "db_column" -> {PyStr("name"), PyStr("_x"), PyStr("x_"), PyStr("a__b")}
      [] k = "protocol" -> {PyStr("ipv4"), PyStr("ipv9")}
      [] k = "unpack_protocol" -> {PyStr("ipv6")}
      [] k = "auto_now" -> {PyBool(TRUE), PyBool(FALSE)}
      [] k = "default" -> {PyStr("abc"), PyInt(7), PyBool(TRUE),
                           PyObj("function", PyInt(7))}   \* lambda: 7

Varied == {"null", "choices", "max_length", "max_digits", "decimal_places",
           "foreign_key", "db_column", "protocol", "unpack_protocol", "auto_now",
           "default"}

\* the keyword arguments a declaration of a field of this kind is given
ArgSets(kind) ==
    UNION {{a \in [D -> UNION {Options(k) : k \in D}] : \A k \in D : a[k] \in Options(k)} :
              D \in SUBSET (Varied \cap DOMAIN Defaults(kind))}

\* the items of the lists handed to validate
ListItems == {PyInt(1), PyBool(TRUE), PyStr("a"),
              PyList(<<PyInt(1), PyInt(2)>>), PyList(<<PyInt(3)>>),
              PyList(<<PyInt(3), PyInt(4)>>)}

Lists == {PyList(l) : l \in UNION {[1..n -> ListItems] : n \in 0..MaxListLen}}

Scalars == {PyNone, PyBool(TRUE), PyInt(1), PyInt(7), PyObj("float", "1.5"),
            PyStr("a"), PyStr("ab@c.d"), PyStr("abcdefgh"), PyStr("1"), PyStr("{}"),
            PyStr("10.0.0.1"), PyStr("::1"), PyStr("00:1b:77:49:54:fd"),
            PyStr("123e4567-e89b-12d3-a456-426614174000"),
            PyDict(<<>>), PyObj("datetime", 0), PyObj("date", 0), PyObj("time", 0),
            PyObj("Decimal", "1.5"), PyObj("UUID", 0), PyObj("IPNetwork", "4"),
            PyObj("IPNetwork", "6"), PyObj("EUI", 0)}

\* the values a field of this kind is handed
ValuesFor(kind) ==
    IF kind = "ArrayField" THEN Scalars \cup Lists
    ELSE Scalars \cup {PyList(<<>>), PyList(<<PyInt(1), PyInt(2)>>),
                       PyList(<<PyInt(1), PyStr("a")>>)}

\* a field declaration: kind(**args).  A field is declared once; a failed
\* declaration is not retried.
Construct ==
    /\ field = NoField /\ outcome.op = "none"
    /\ \E kind \in Kinds : \E args \in ArgSets(kind) :
          LET r == New(kind, args)
          IN  /\ field' = r.field
              /\ outcome' = [op |-> "init", kind |-> kind, args |-> args,
                             result |-> r.result]
    /\ UNCHANGED <<cursorVars, compilerVars>>

\* field.validate(value).  validate and sanitize_data read the field and
\* change nothing, so each behaviour applies one of them to a new field.
Validate ==
    /\ field # NoField /\ outcome.op = "init"
    /\ \E value \in ValuesFor(field.kind) : \E r \in validate(field, value) :
          outcome' = [op |-> "validate", value |-> value, result |-> r,
                      returned |-> PyNone]
    /\ UNCHANGED <<field, cursorVars, compilerVars>>

\* field.sanitize_data(value)
SanitizeData ==
    /\ field # NoField /\ outcome.op = "init"
    /\ \E value \in ValuesFor(field.kind) : \E r \in sanitize_data(field, value) :
          outcome' = [op |-> "sanitize_data", value |-> value, result |-> r.result,
                      returned |-> r.value]
    /\ UNCHANGED <<field, cursorVars, compilerVars>>

\* field.creation_query()
CreationQuery ==
    /\ field # NoField /\ outcome.op = "init"
    /\ \E r \in creation_query(field) :
          outcome' = [op |-> "creation_query", result |-> r.result, returned |-> r.value]
    /\ UNCHANGED <<field, cursorVars, compilerVars>>

\* the column names set_field_name is handed
ColumnNames == {"", "_", "title", "_x", "x_", "a__b", "a_b"}

\* field.set_field_name(db_column); before is the column name held until then
SetFieldName ==
    /\ field # NoField /\ outcome.op \in {"init", "set_field_name"}
    /\ \E db_column \in ColumnNames :
          LET r == set_field_name(db_column)
          IN  /\ field' = IF r = "ok"
                          THEN [field EXCEPT !.attrs =
                                   Update(field.attrs, "db_column", PyStr(db_column))]
                          ELSE field
              /\ outcome' = [op |-> "set_field_name", name |-> db_column,
                             result |-> r, before |-> field.attrs.db_column]
    /\ UNCHANGED <<cursorVars, compilerVars>>

InitField == field = NoField /\ outcome = [op |-> "none"]

NextField == Construct \/ Validate \/ SanitizeData \/ SetFieldName \/ CreationQuery

FieldInit == IdleCursor /\ IdleCompiler /\ InitField

SpecField == FieldInit /\ [][NextField]_vars

\* the field was declared with null=...: it has the attribute null
Nullable == Truthy(field.attrs.null)
ValidatedNone ==
    /\ outcome.op = "validate" /\ outcome.value = PyNone
    /\ "null" \in DOMAIN field.attrs

\* C7: for every field kind and every combination of its other parameters,
\* validate(None) fails with a field error when the field is not nullable
\* and succeeds when it is nullable.
C7_ValidateNone ==
    ValidatedNone =>
        /\ ~Nullable => outcome.result = "FieldError"
        /\ Nullable => outcome.result = "ok"

\* C8: for every field kind, whenever validate(v) rejects v with a field
\* error, sanitize_data(v) fails with a field error too and returns nothing.
C8_SanitizeValidatesFirst ==
    (/\ outcome.op = "sanitize_data"
     /\ validate(field, outcome.value) = {"FieldError"})
    => outcome.result = "FieldError"

SameType(items) == \A i \in 1..Len(items) : items[i].t = items[1].t
Rectangular(items) ==
    items[1].t = "list" => \A i \in 1..Len(items) : Len(items[i].v) = Len(items[1].v)

ValidatedList ==
    /\ outcome.op = "validate" /\ field.kind = "ArrayField"
    /\ outcome.value.t = "list" /\ outcome.value.v # <<>>

\* C9: ArrayField.validate accepts a non-empty list only if all its elements
\* share one runtime type and, when they are lists, have one length:
\* [1, "a"] fails, [[1,2],[3,4]] passes, [[1,2],[3]] fails, in any order.
C9_ArrayHomogeneous ==
    ValidatedList =>
        LET items == outcome.value.v
        IN  /\ outcome.result = "ok" => (SameType(items) /\ Rectangular(items))
            /\ items \in {<<PyInt(1), PyStr("a")>>, <<PyStr("a"), PyInt(1)>>}
                  => outcome.result = "FieldError"
            /\ items \in {<<PyList(<<PyInt(1), PyInt(2)>>), PyList(<<PyInt(3), PyInt(4)>>)>>,
                          <<PyList(<<PyInt(3), PyInt(4)>>), PyList(<<PyInt(1), PyInt(2)>>)>>}
                  => outcome.result = "ok"
            /\ items \in {<<PyList(<<PyInt(1), PyInt(2)>>), PyList(<<PyInt(3)>>)>>,
                          <<PyList(<<PyInt(3)>>), PyList(<<PyInt(1), PyInt(2)>>)>>}
                  => outcome.result = "FieldError"

Declared == outcome.op = "init"
LeftOut(k) == k \notin DOMAIN outcome.args

\* no field of a kind with required parameters holds a missing one
RequiredHeld ==
    /\ field.kind \in {"CharField", "EmailField", "JsonField"}
          => Truthy(field.attrs.max_length)
    /\ field.kind \in {"ForeignKey", "ManyToManyField"}
          => Truthy(field.attrs.foreign_key)

\* C10 as stated: a declaration that leaves out max_length (Char, Email,
\* Json), max_digits or decimal_places (Decimal) or foreign_key (ForeignKey,
\* ManyToMany) fails at construction with a field error.
C10_RequiredParamsWithDecimal ==
    /\ RequiredHeld
    /\ Declared =>
        /\ (outcome.kind \in {"CharField", "EmailField", "JsonField"}
               /\ LeftOut("max_length")) => outcome.result = "FieldError"
        /\ (outcome.kind \in {"ForeignKey", "ManyToManyField"}
               /\ LeftOut("foreign_key")) => outcome.result = "FieldError"
        /\ (outcome.kind = "DecimalField"
               /\ (LeftOut("max_digits") \/ LeftOut("decimal_places")))
              => outcome.result = "FieldError"

\* C10, amended: a declaration that leaves out max_length (Char, Email, Json)
\* or foreign_key (ForeignKey, ManyToMany) fails at construction with a field
\* error, and no field of these kinds holds a missing required parameter; a
\* Decimal field declared without max_digits or decimal_places is constructed
\* with max_digits 10 and decimal_places 2.
C10_RequiredParams ==
    /\ RequiredHeld
    /\ Declared =>
        /\ (outcome.kind \in {"CharField", "EmailField", "JsonField"}
               /\ LeftOut("max_length")) => outcome.result = "FieldError"
        /\ (outcome.kind \in {"ForeignKey", "ManyToManyField"}
               /\ LeftOut("foreign_key")) => outcome.result = "FieldError"
        /\ (outcome.kind = "DecimalField" /\ outcome.result = "ok") =>
              /\ LeftOut("max_digits") => field.attrs.max_digits = PyInt(10)
              /\ LeftOut("decimal_places") => field.attrs.decimal_places = PyInt(2)
        /\ (outcome.kind = "DecimalField" /\ LeftOut("db_column"))
              => outcome.result = "ok"

\* a Char declaration without max_length has failed
C10_Witness ==
    /\ Declared /\ outcome.kind = "CharField" /\ LeftOut("max_length")
    /\ outcome.result = "FieldError" /\ field = NoField

\* a Decimal declaration without max_digits and decimal_places has succeeded
C10_WitnessDecimal ==
    /\ Declared /\ outcome.kind = "DecimalField" /\ outcome.args = <<>>
    /\ field.kind = "DecimalField"


\* a column name breaking the naming rule: it contains "__" or starts or ends
\* with "_"
BadName(name) ==
    \/ \E i \in 1..(Len(name) - 1) : Char(name, i) = "_" /\ Char(name, i + 1) = "_"
    \/ (Len(name) >= 1 /\ Char(name, 1) = "_")
    \/ (Len(name) >= 1 /\ Char(name, Len(name)) = "_")

\* C11: a construction or a set_field_name call with a column name that
\* contains "__" or starts or ends with "_" fails with a field error and
\* leaves the column name as it was; no field ever holds such a name.
C11_ColumnNameInvariant ==
    /\ field # NoField => ~BadName(field.attrs.db_column.v)
    /\ (outcome.op = "init" /\ "db_column" \in DOMAIN outcome.args
           /\ BadName(outcome.args.db_column.v))
          => (outcome.result = "FieldError" /\ field = NoField)
    /\ (outcome.op = "set_field_name" /\ BadName(outcome.name))
          => (outcome.result = "FieldError" /\ field.attrs.db_column = outcome.before)
    /\ (outcome.op = "set_field_name" /\ ~BadName(outcome.name))
          => (outcome.result = "ok" /\ field.attrs.db_column = PyStr(outcome.name))

\* a field renamed to "title" has refused the name "x_" and kept "title"
C11_Witness ==
    /\ outcome.op = "set_field_name" /\ outcome.name = "x_"
    /\ outcome.result = "FieldError"
    /\ field.attrs.db_column = PyStr("title")

\* a declaration with the column name "a__b" has failed
C11_WitnessInit ==
    /\ outcome.op = "init" /\ "db_column" \in DOMAIN outcome.args
    /\ outcome.args.db_column = PyStr("a__b") /\ outcome.result = "FieldError"


\* number of places at which p occurs in s
Count(s, p) ==
    Cardinality({i \in 1..(Len(s) - Len(p) + 1) : SubSeq(s, i, i + Len(p) - 1) = p})

EmittedDDL == outcome.op = "creation_query" /\ outcome.result = "ok"

\* C12: creation_query emits DEFAULT now() for every date/time kind
\* (DateTime, Date, Time) with auto_now set and no explicit default; with an
\* explicit default the resolved literal is emitted instead; a fragment never
\* holds more than one DEFAULT clause.
C12_AutoNowDefault ==
    /\ (outcome.op = "creation_query"
          /\ field.kind \in {"DateTimeField", "DateField", "TimeField"}
          /\ Truthy(field.attrs.auto_now) /\ field.attrs.default = PyNone)
          => (outcome.result = "ok" /\ Contains(outcome.returned.v, " DEFAULT now()"))
    /\ (EmittedDDL /\ field.attrs.default # PyNone)
          => /\ ~Contains(outcome.returned.v, "now()")
             /\ field.attrs.default = PyStr("abc")
                   => Contains(outcome.returned.v, " DEFAULT 'abc'")
             /\ field.attrs.default = PyBool(TRUE)
                   => Contains(outcome.returned.v, " DEFAULT True")
             /\ field.attrs.default \in {PyInt(7), PyObj("function", PyInt(7))}
                   => Contains(outcome.returned.v, " DEFAULT 7")
    /\ EmittedDDL => Count(outcome.returned.v, "DEFAULT") <= 1


=============================================================================
